---- MODULE Spec2Model ----
(***************************************************************************)
(* Model of the hex-world chunk generator (chunk_manager.py) and of the    *)
(* movement and site operations that read and write the chunks table       *)
(* (location_manager.py, site_manager.py, game_engine.py).                 *)
(*                                                                         *)
(* Texts.  A Python string is modelled as a sequence of lexemes.  A        *)
(* direction text such as "q+1,r+0" is the sequence of its characters      *)
(* <<"q","+","1",",","r","+","0">>, so that split, replace and int act on  *)
(* it as they do in the code.  The prefix "exit:" is one lexeme and a      *)
(* location name is one lexeme: a connection token is <<"exit:">> \o dir   *)
(* or <<name>>.  None and the empty string are both the empty sequence     *)
(* (the code tests from_dir only by truthiness).                           *)
(*                                                                         *)
(* A connections list is modelled as the set of its tokens: the code only  *)
(* tests membership in it and iterates over it, and the builder rewrites   *)
(* every list as sorted(set(...)) in _connect_local_locations.             *)
(***************************************************************************)
EXTENDS Integers, Sequences, FiniteSets, TLC

VARIABLES
    chunks,   \* the chunks table: coordinate -> sequence of rows (data_json), in insertion order
    player,   \* the player row: q, r, location_name, place_name
    last,     \* the last call made and what it returned or raised
    requests, \* the get_or_create_chunk_data calls of requests served at the same time
    unique,   \* whether the chunks table was created with UNIQUE(q, r)
    roll,     \* a call of _roll_secret_count: its draws and what it returned
    walk      \* a coordinate carried along a direction and along its inverse

vars == <<chunks, player, last, requests, unique, roll, walk>>

Range(s) == {s[i] : i \in 1..Len(s)}

----------------------------------------------------------------------------
(* Python string operations on texts *)

Contains(s, ch) == \E i \in 1..Len(s) : s[i] = ch

Replace(s, a, b) == [i \in 1..Len(s) |-> IF s[i] = a THEN b ELSE s[i]]

RECURSIVE Split(_, _)
Split(s, sep) ==
    IF ~Contains(s, sep) THEN <<s>>
    ELSE LET i == CHOOSE k \in 1..Len(s) :
                      s[k] = sep /\ \A j \in 1..(k - 1) : s[j] # sep
         IN  <<SubSeq(s, 1, i - 1)>> \o Split(SubSeq(s, i + 1, Len(s)), sep)

DigitValue(ch) ==
    CASE ch = "0" -> 0 [] ch = "1" -> 1 [] ch = "2" -> 2 [] ch = "3" -> 3
      [] ch = "4" -> 4 [] ch = "5" -> 5 [] ch = "6" -> 6 [] ch = "7" -> 7
      [] ch = "8" -> 8 [] ch = "9" -> 9

RECURSIVE NatOf(_)
NatOf(s) == IF s = <<>> THEN 0
            ELSE 10 * NatOf(SubSeq(s, 1, Len(s) - 1)) + DigitValue(s[Len(s)])

\* int("+1") = 1, int("-1") = -1, int("-0") = 0
ParseInt(s) ==
    IF Head(s) = "-" THEN 0 - NatOf(Tail(s))
    ELSE IF Head(s) = "+" THEN NatOf(Tail(s))
    ELSE NatOf(s)

----------------------------------------------------------------------------
(* Hex topology *)

HEX_NEIGHBORS ==
    << << <<"q","+","1",",","r","+","0">>,  1,  0 >>,
       << <<"q","+","1",",","r","-","1">>,  1, -1 >>,
       << <<"q","+","0",",","r","-","1">>,  0, -1 >>,
       << <<"q","-","1",",","r","+","0">>, -1,  0 >>,
       << <<"q","-","1",",","r","+","1">>, -1,  1 >>,
       << <<"q","+","0",",","r","+","1">>,  0,  1 >> >>

NumDirs == Len(HEX_NEIGHBORS)

DirTags == {HEX_NEIGHBORS[i][1] : i \in 1..NumDirs}

flip(s) == IF Contains(s, "+") THEN Replace(s, "+", "-") ELSE Replace(s, "-", "+")

\* an inversion that returns the text it was given
keep_direction(dir_str) == dir_str

flip_direction(dir_str) ==
    LET parts == Split(dir_str, ",")
    IN  flip(parts[1]) \o <<",">> \o flip(parts[2])

\* the (dq, dr) that do_exit_chunk parses out of a direction text
ParseOffset(data) ==
    LET parts == Split(data, ",")
    IN  <<ParseInt(Tail(parts[1])), ParseInt(Tail(parts[2]))>>

ExitTok(dir_str) == <<"exit:">> \o dir_str
NameTok(name) == <<name>>
IsExit(c) == Len(c) > 0 /\ Head(c) = "exit:"

----------------------------------------------------------------------------
(* The chunks table *)

RowsAt(c) == IF c \in DOMAIN chunks THEN chunks[c] ELSE <<>>

\* SELECT ... WHERE q=? AND r=? ... fetchone()
Exists(c) == RowsAt(c) # <<>>
FetchOne(c) == RowsAt(c)[1]

\* A chunk (the "locations" dict of data_json): names is the key order of the dict,
\* conn the connections of each location, sites the names of its sites, visible
\* its "visible" flag.
EmptyChunk == [names |-> <<>>, conn |-> <<>>, sites |-> <<>>, visible |-> <<>>]

NewChunk(names) ==
    [names |-> names,
     conn  |-> [ln \in Range(names) |-> {}],
     sites |-> [ln \in Range(names) |-> {}],
     visible |-> [ln \in Range(names) |-> TRUE]]

AddConn(cd, ln, tok) == [cd EXCEPT !.conn[ln] = @ \cup {tok}]

----------------------------------------------------------------------------
(* Step 1 and 2: the placeholders and the roll for secret locations *)

NormalCount == 3
NumTrials == 10
SecretCap == 2

NormalNames == <<"LocationA", "LocationB", "LocationC">>
SecretNames == <<"Secret1", "Secret2">>

\* a loop that never breaks: every trial is drawn and every success counted
RECURSIVE RollAll(_, _, _)
RollAll(trials, i, count) ==
    IF i > Len(trials) THEN [count |-> count, made |-> Len(trials)]
    ELSE RollAll(trials, i + 1, IF trials[i] THEN count + 1 ELSE count)

\* trials[i] is the outcome of the i-th draw random.random() < 0.10; the result is
\* the count returned and the number of trials the loop made
RECURSIVE RollFrom(_, _, _)
RollFrom(trials, i, count) ==
    IF i > Len(trials) THEN [count |-> count, made |-> Len(trials)]
    ELSE IF trials[i]
         THEN IF count + 1 = SecretCap THEN [count |-> count + 1, made |-> i]
              ELSE RollFrom(trials, i + 1, count + 1)
         ELSE RollFrom(trials, i + 1, count)

roll_secret_count(trials) == RollFrom(trials, 1, 0).count

\* the draws of one roll in which at most maxSuccess trials succeed
TrialSeqs(maxSuccess) ==
    {t \in [1..NumTrials -> BOOLEAN] :
        Cardinality({i \in 1..NumTrials : t[i]}) <= maxSuccess}

SecretCounts(maxSuccess) == {roll_secret_count(t) : t \in TrialSeqs(maxSuccess)}

loc_names(secret_count) ==
    SubSeq(NormalNames, 1, NormalCount) \o SubSeq(SecretNames, 1, secret_count)

Placeholders(secret_count, from_dir) ==
    LET cd == NewChunk(loc_names(secret_count))
    IN  IF from_dir # <<>>
        THEN AddConn(cd, loc_names(secret_count)[1], ExitTok(flip_direction(from_dir)))
        ELSE cd

----------------------------------------------------------------------------
(* Step 3: neighbors and backlinks *)

NeighborCoord(q, r, i) == <<q + HEX_NEIGHBORS[i][2], r + HEX_NEIGHBORS[i][3]>>

get_neighbor_data(q, r) ==
    [i \in 1..NumDirs |->
        IF Exists(NeighborCoord(q, r, i)) THEN FetchOne(NeighborCoord(q, r, i))
        ELSE EmptyChunk]

\* the locations of a neighbor that hold back_exit
connecting_locs(neighbor_data, back_exit) ==
    {ln \in Range(neighbor_data.names) : back_exit \in neighbor_data.conn[ln]}

\* the directions (indices into HEX_NEIGHBORS, in order) whose neighbor points at us
connecting_by_dir(neighbors) ==
    SelectSeq([i \in 1..NumDirs |-> i],
              LAMBDA i : connecting_locs(neighbors[i],
                             ExitTok(flip_direction(HEX_NEIGHBORS[i][1]))) # {})

available_locs(cd, dir_str) ==
    {ln \in Range(cd.names) : ExitTok(dir_str) \notin cd.conn[ln]}

RECURSIVE ProcessBacklinks(_, _, _)
ProcessBacklinks(cd, dirs, j) ==
    IF j > Len(dirs) THEN {cd}
    ELSE LET dir_str == HEX_NEIGHBORS[dirs[j]][1]
             avail == available_locs(cd, dir_str)
         IN  IF avail = {} THEN ProcessBacklinks(cd, dirs, j + 1)
             ELSE UNION {ProcessBacklinks(AddConn(cd, ln, ExitTok(dir_str)), dirs, j + 1) :
                            ln \in avail}

apply_neighbor_backlinks(cd, neighbors) ==
    ProcessBacklinks(cd, connecting_by_dir(neighbors), 1)

----------------------------------------------------------------------------
(* Step 4: additional outward edges *)

\* c.replace("exit:", "")
StripExit(c) == SelectSeq(c, LAMBDA x : x # "exit:")

used_edges(cd) ==
    {StripExit(c) : c \in {t \in UNION {cd.conn[ln] : ln \in Range(cd.names)} : IsExit(t)}}

unexplored_dirs(q, r, cd) ==
    {HEX_NEIGHBORS[i][1] : i \in {k \in 1..NumDirs :
        /\ HEX_NEIGHBORS[k][1] \notin used_edges(cd)
        /\ ~Exists(NeighborCoord(q, r, k))}}

\* probabilities in percent
prob_map ==
    (1 :> <<100, 80, 60, 40, 20>>) @@ (2 :> <<80, 60, 40, 20>>) @@
    (3 :> <<60, 40, 20>>) @@ (4 :> <<40, 20>>) @@ (5 :> <<20>>)

\* prob_map[connected_count] raises KeyError
AddExitsRaises(cd) ==
    LET connected_count == Cardinality(used_edges(cd))
    IN  connected_count < NumDirs /\ connected_count \notin DOMAIN prob_map

\* The outcomes of the draws random.random() >= 1.0 - prob, one per probability:
\* a draw for prob = 1.0 always succeeds, any other draw may succeed or fail.
\* budget is the number of such free draws that may succeed.
DrawSeqs(probs, budget) ==
    {d \in [1..Len(probs) -> BOOLEAN] :
        /\ \A i \in 1..Len(probs) : probs[i] = 100 => d[i]
        /\ Cardinality({i \in 1..Len(probs) : d[i] /\ probs[i] < 100}) <= budget}

\* One pass over probs from index i with the given outcomes of the draws.
RECURSIVE TryDraws(_, _, _, _, _)
TryDraws(cd, unexplored, probs, i, draws) ==
    IF i > Len(probs) \/ unexplored = {} THEN {cd}
    ELSE IF draws[i]
         THEN UNION {LET avail == available_locs(cd, chosen_dir)
                     IN  IF avail = {}
                         THEN TryDraws(cd, unexplored \ {chosen_dir}, probs, i + 1, draws)
                         ELSE UNION {TryDraws(AddConn(cd, ln, ExitTok(chosen_dir)),
                                              unexplored \ {chosen_dir}, probs, i + 1, draws) :
                                        ln \in avail} :
                     chosen_dir \in unexplored}
         ELSE TryDraws(cd, unexplored, probs, i + 1, draws)

TryProbs(cd, unexplored, probs, i, budget) ==
    UNION {TryDraws(cd, unexplored, probs, i, draws) : draws \in DrawSeqs(probs, budget)}

add_additional_exits(q, r, cd, budget) ==
    LET connected_count == Cardinality(used_edges(cd))
    IN  IF connected_count >= NumDirs THEN {cd}
        ELSE TryProbs(cd, unexplored_dirs(q, r, cd), prob_map[connected_count], 1, budget)

----------------------------------------------------------------------------
(* Step 5: local connectivity *)

adjacency(cd) ==
    [ln \in Range(cd.names) |-> {x \in Range(cd.names) : NameTok(x) \in cd.conn[ln]}]

RECURSIVE Reach(_, _, _)
Reach(adj, frontier, visited) ==
    LET nxt == (UNION {adj[n] : n \in frontier}) \ visited
    IN  IF nxt = {} THEN visited ELSE Reach(adj, nxt, visited \cup nxt)

bfs(adj, start) == Reach(adj, {start}, {start})

RECURSIVE ComponentsFrom(_, _, _, _)
ComponentsFrom(adj, names, i, visited_global) ==
    IF i > Len(names) THEN <<>>
    ELSE IF names[i] \in visited_global
         THEN ComponentsFrom(adj, names, i + 1, visited_global)
         ELSE LET comp == bfs(adj, names[i])
              IN  <<comp>> \o ComponentsFrom(adj, names, i + 1, visited_global \cup comp)

components(cd) == ComponentsFrom(adjacency(cd), cd.names, 1, {})

\* a repair that joins the last two components and stops
UnifyOnce(comps, adj) ==
    IF Len(comps) <= 1 THEN {adj}
    ELSE {[adj EXCEPT ![p[1]] = @ \cup {p[2]}, ![p[2]] = @ \cup {p[1]}] :
             p \in comps[Len(comps)] \X comps[Len(comps) - 1]}

\* while len(components) > 1: pop two, join one location of each (next(iter(c)) may
\* be any element of the set), push the union
RECURSIVE Unify(_, _)
Unify(comps, adj) ==
    IF Len(comps) <= 1 THEN {adj}
    ELSE LET n == Len(comps)
             c1 == comps[n]
             c2 == comps[n - 1]
             rest == SubSeq(comps, 1, n - 2)
         IN  UNION {Unify(Append(rest, c1 \cup c2),
                          [adj EXCEPT ![p[1]] = @ \cup {p[2]}, ![p[2]] = @ \cup {p[1]}]) :
                       p \in c1 \X c2}

\* a repair that writes back the local connections only
connect_dropping_exits(cd) ==
    {[cd EXCEPT !.conn = [ln \in Range(cd.names) |-> {NameTok(x) : x \in adj[ln]}]] :
        adj \in Unify(components(cd), adjacency(cd))}

connect_local_locations(cd) ==
    {[cd EXCEPT !.conn =
         [ln \in Range(cd.names) |->
             {NameTok(x) : x \in adj[ln]} \cup {c \in cd.conn[ln] : IsExit(c)}]] :
        adj \in Unify(components(cd), adjacency(cd))}

----------------------------------------------------------------------------
(* Step 6 and 7: the content generator.  Its reply is an input.  A naming  *)
(* reply is the parsed JSON object: a sequence of entries old name -> new  *)
(* name, in key order.  A description reply is the "locations" object: a   *)
(* sequence of entries name -> the connections the reply carries for it.   *)
(* ok = FALSE stands for every failure the try block catches (the call     *)
(* raises, no JSON in the text, a missing field).  A naming reply is       *)
(* malformed when the response object has no message.content[0].text: the  *)
(* except block of the naming step reads that text again.                  *)

NewNames == <<"Alder", "Birch", "Cedar", "Dune", "Elm">>
ExtraName == "Annex"

Faithful(cd) == [i \in 1..Len(cd.names) |-> [old |-> cd.names[i], new |-> NewNames[i]]]

RemoveAt(s, i) == SubSeq(s, 1, i - 1) \o SubSeq(s, i + 1, Len(s))

\* the replies that differ from the faithful one in at most dev ways: an entry left
\* out, or an entry given the same new name as the entry before it
RECURSIVE NamingDeviations(_, _)
NamingDeviations(entries, dev) ==
    IF dev = 0 THEN {entries}
    ELSE {entries}
         \cup UNION {NamingDeviations(RemoveAt(entries, i), dev - 1) : i \in 1..Len(entries)}
         \cup UNION {NamingDeviations([entries EXCEPT ![i].new = entries[i - 1].new], dev - 1) :
                        i \in 2..Len(entries)}

\* K.fail > 0: the call may fail; K.dev: the deviations of a reply that parses
NamingReplies(cd, K) ==
    (IF K.fail > 0
     THEN {[ok |-> FALSE, malformed |-> m, entries |-> <<>>] : m \in BOOLEAN}
     ELSE {})
    \cup {[ok |-> TRUE, malformed |-> FALSE, entries |-> e] :
             e \in NamingDeviations(Faithful(cd), K.dev)}

\* the except block raises: resp is bound, resp.message.content[0].text is not there
NamingRaises(reply) == ~reply.ok /\ reply.malformed

name_mapping(entries) ==
    [old \in {entries[i].old : i \in 1..Len(entries)} |->
        entries[CHOOSE i \in 1..Len(entries) : entries[i].old = old].new]

MapConn(mapping, conn) ==
    IF IsExit(conn) THEN conn
    ELSE IF Len(conn) = 1 /\ conn[1] \in DOMAIN mapping THEN NameTok(mapping[conn[1]])
    ELSE conn

\* key order of new_locations: a key keeps the place of its first insertion
RECURSIVE FirstInsertions(_)
FirstInsertions(keys) ==
    IF keys = <<>> THEN <<>>
    ELSE LET front == FirstInsertions(SubSeq(keys, 1, Len(keys) - 1))
             k == keys[Len(keys)]
         IN  IF k \in Range(front) THEN front ELSE Append(front, k)

generate_location_names_and_stories(cd, reply) ==
    IF ~reply.ok THEN cd
    ELSE LET mapping == name_mapping(reply.entries)
             kept == SelectSeq(reply.entries, LAMBDA e : e.old \in Range(cd.names))
             keys == [i \in 1..Len(kept) |-> kept[i].new]
             \* a later entry with the same new name overwrites the earlier one
             src(nn) == kept[CHOOSE i \in 1..Len(kept) :
                                /\ kept[i].new = nn
                                /\ \A j \in (i + 1)..Len(kept) : kept[j].new # nn].old
         IN  [names |-> FirstInsertions(keys),
              conn  |-> [nn \in Range(keys) |-> {MapConn(mapping, c) : c \in cd.conn[src(nn)]}],
              sites |-> [nn \in Range(keys) |-> cd.sites[src(nn)]],
              visible |-> [nn \in Range(keys) |-> cd.visible[src(nn)]]]

FaithfulDescription(cd) ==
    [i \in 1..Len(cd.names) |-> [name |-> cd.names[i], connections |-> cd.conn[cd.names[i]]]]

\* at most dev deviations: an entry left out, or an entry for a location the builder
\* never made (appended, carrying no connections)
RECURSIVE DescriptionDeviations(_, _)
DescriptionDeviations(entries, dev) ==
    IF dev = 0 THEN {entries}
    ELSE {entries}
         \cup UNION {DescriptionDeviations(RemoveAt(entries, i), dev - 1) :
                        i \in 1..Len(entries)}
         \cup (IF \E i \in 1..Len(entries) : entries[i].name = ExtraName THEN {}
               ELSE DescriptionDeviations(
                        Append(entries, [name |-> ExtraName, connections |-> {}]), dev - 1))

DescriptionReplies(cd, K) ==
    (IF K.fail > 0 THEN {[ok |-> FALSE, entries |-> <<>>]} ELSE {})
    \cup {[ok |-> TRUE, entries |-> e] :
             e \in DescriptionDeviations(FaithfulDescription(cd), K.dev)}

\* ln.startswith("Secret")
StartsWithSecret(ln) == ln \in Range(SecretNames)

\* The reply's sites are content; the model takes the reply to carry none.  Both
\* branches set "visible" from the name the location has by now.
generate_ai_descriptions(cd, reply) ==
    IF ~reply.ok
    THEN [cd EXCEPT !.sites = [ln \in Range(cd.names) |-> {}],
                    !.visible = [ln \in Range(cd.names) |-> ~StartsWithSecret(ln)]]
    ELSE LET names == [i \in 1..Len(reply.entries) |-> reply.entries[i].name]
             entry(ln) == reply.entries[CHOOSE i \in 1..Len(reply.entries) :
                                            reply.entries[i].name = ln]
         IN  [names |-> names,
              conn  |-> [ln \in Range(names) |->
                            IF ln \in Range(cd.names) THEN cd.conn[ln]
                            ELSE entry(ln).connections],
              sites |-> [ln \in Range(names) |-> {}],
              visible |-> [ln \in Range(names) |-> ~StartsWithSecret(ln)]]

----------------------------------------------------------------------------
(* get_or_create_chunk_data.  K bounds the inputs of one generation:       *)
(* K.secrets the outcomes of the secret roll, K.budget the free frontier   *)
(* draws that may succeed, K.dev the deviations of a content reply, K.fail *)
(* whether a content call may fail.                                        *)

\* steps 1 to 5: the topologies the builder can produce
build_topology(q, r, from_dir, K) ==
    LET neighbors == get_neighbor_data(q, r)
        placed == {Placeholders(sc, from_dir) : sc \in K.secrets}
        linked == UNION {apply_neighbor_backlinks(cd, neighbors) : cd \in placed}
        exited == UNION {add_additional_exits(q, r, cd, K.budget) :
                            cd \in {x \in linked : ~AddExitsRaises(x)}}
    IN  UNION {connect_local_locations(cd) : cd \in exited}

\* step 4 raises on some draw of the steps before it
BuildRaises(q, r, from_dir, K) ==
    \E sc \in K.secrets :
        \E cd \in apply_neighbor_backlinks(Placeholders(sc, from_dir), get_neighbor_data(q, r)) :
            AddExitsRaises(cd)

\* steps 6 and 7 on a built topology
enrich(cd, K) ==
    UNION {{generate_ai_descriptions(named, reply) : reply \in DescriptionReplies(named, K)} :
              named \in {generate_location_names_and_stories(cd, reply) :
                            reply \in {x \in NamingReplies(cd, K) : ~NamingRaises(x)}}}

\* step 6 raises on some reply to some built topology
EnrichRaises(q, r, from_dir, K) ==
    \E b \in build_topology(q, r, from_dir, K) :
        \E reply \in NamingReplies(b, K) : NamingRaises(reply)

Generate(q, r, from_dir, K) ==
    {[raised |-> FALSE, chunk |-> cd] :
        cd \in UNION {enrich(b, K) : b \in build_topology(q, r, from_dir, K)}}
    \cup (IF BuildRaises(q, r, from_dir, K) \/ EnrichRaises(q, r, from_dir, K)
          THEN {[raised |-> TRUE, chunk |-> EmptyChunk]} ELSE {})

\* an INSERT that writes the row twice
InsertTwice(table, c, data) == [table EXCEPT ![c] = Append(Append(@, data), data)]

Insert(table, c, data) == [table EXCEPT ![c] = Append(@, data)]

\* a get_or_create_chunk_data that builds a chunk whether or not a row is stored
get_or_create_regenerating(q, r, from_dir, K) ==
    {IF g.raised
     THEN [raised |-> TRUE, hit |-> FALSE, ret |-> EmptyChunk, table |-> chunks]
     ELSE [raised |-> FALSE, hit |-> Exists(<<q, r>>), ret |-> g.chunk,
           table |-> Insert(chunks, <<q, r>>, g.chunk)] :
        g \in Generate(q, r, from_dir, K)}

\* a get_or_create_chunk_data that stores the placeholders before the steps that
\* can raise
get_or_create_storing_early(q, r, from_dir, K) ==
    IF Exists(<<q, r>>)
    THEN {[raised |-> FALSE, hit |-> TRUE, ret |-> FetchOne(<<q, r>>), table |-> chunks]}
    ELSE {IF g.raised
          THEN [raised |-> TRUE, hit |-> FALSE, ret |-> EmptyChunk,
                table |-> Insert(chunks, <<q, r>>, Placeholders(0, from_dir))]
          ELSE [raised |-> FALSE, hit |-> FALSE, ret |-> g.chunk,
                table |-> Insert(chunks, <<q, r>>, g.chunk)] :
             g \in Generate(q, r, from_dir, K)}

\* what one call can do: raised, hit (a row was found), ret (the chunk returned),
\* table (the chunks table after the call)
get_or_create_chunk_data(q, r, from_dir, K) ==
    IF Exists(<<q, r>>)
    THEN {[raised |-> FALSE, hit |-> TRUE, ret |-> FetchOne(<<q, r>>), table |-> chunks]}
    ELSE {IF g.raised
          THEN [raised |-> TRUE, hit |-> FALSE, ret |-> EmptyChunk, table |-> chunks]
          ELSE [raised |-> FALSE, hit |-> FALSE, ret |-> g.chunk,
                table |-> Insert(chunks, <<q, r>>, g.chunk)] :
             g \in Generate(q, r, from_dir, K)}

----------------------------------------------------------------------------
(* Movement: location_manager.py *)

NoPlace == ""

HasLoc(cd, ln) == ln \in Range(cd.names)

\* chunk_data["locations"].get(name, {}).get("connections", [])
ConnsOf(cd, ln) == IF HasLoc(cd, ln) THEN cd.conn[ln] ELSE {}
SitesOf(cd, ln) == IF HasLoc(cd, ln) THEN cd.sites[ln] ELSE {}

Call(c, fd, o) == [c |-> c, fd |-> fd, raised |-> o.raised, hit |-> o.hit, ret |-> o.ret]

\* an outcome of a handler: whether it raised, the table and the player row after it,
\* and the get_or_create_chunk_data call it made
Outcome(raised, table, p, call) ==
    [raised |-> raised, table |-> table, player |-> p, call |-> call]

do_move_to_location(p, loc_name, K) ==
    {IF o.raised THEN Outcome(TRUE, o.table, p, Call(<<p.q, p.r>>, <<>>, o))
     ELSE IF loc_name \notin ConnsOf(o.ret, p.location_name)
          THEN Outcome(FALSE, o.table, p, Call(<<p.q, p.r>>, <<>>, o))
          ELSE Outcome(FALSE, o.table,
                       [p EXCEPT !.location_name = loc_name[1], !.place_name = NoPlace],
                       Call(<<p.q, p.r>>, <<>>, o)) :
        o \in get_or_create_chunk_data(p.q, p.r, <<>>, K)}

ExitTarget(p, action) ==
    LET off == ParseOffset(StripExit(action))
    IN  <<p.q + off[1], p.r + off[2]>>

do_exit_chunk(p, action, K) ==
    LET data == StripExit(action)
        new == ExitTarget(p, action)
        from_dir == data
        back_edge == ExitTok(flip_direction(data))
    IN  {IF o.raised THEN Outcome(TRUE, o.table, p, Call(new, from_dir, o))
         ELSE LET holders == {i \in 1..Len(o.ret.names) :
                                 back_edge \in o.ret.conn[o.ret.names[i]]}
              IN  IF holders = {} /\ o.ret.names = <<>>
                  THEN Outcome(TRUE, o.table, p, Call(new, from_dir, o))   \* IndexError
                  ELSE LET new_loc ==
                               IF holders # {}
                               THEN o.ret.names[CHOOSE i \in holders : \A j \in holders : i <= j]
                               ELSE o.ret.names[1]
                       IN  Outcome(FALSE, o.table,
                                   [q |-> new[1], r |-> new[2],
                                    location_name |-> new_loc, place_name |-> NoPlace],
                                   Call(new, from_dir, o)) :
            o \in get_or_create_chunk_data(new[1], new[2], from_dir, K)}

----------------------------------------------------------------------------
(* Sites: site_manager.py.  A site is modelled by its name; every site of  *)
(* the model is discovered.                                                *)

SiteLimit == 20
SiteNames == {"cave"}

\* UPDATE chunks SET data_json=? WHERE q=? AND r=?
update_chunk(table, c, new_data) ==
    IF c \in DOMAIN table THEN [table EXCEPT ![c] = [i \in 1..Len(@) |-> new_data]]
    ELSE table

\* chunk_data["locations"][loc_name] = loc_obj, loc_obj holding the new site; a
\* loc_obj made here has no "visible" key, which reads as True
WithSite(cd, ln, site) ==
    IF HasLoc(cd, ln) THEN [cd EXCEPT !.sites[ln] = @ \cup {site}]
    ELSE [names |-> Append(cd.names, ln),
          conn  |-> [x \in Range(cd.names) \cup {ln} |-> IF x = ln THEN {} ELSE cd.conn[x]],
          sites |-> [x \in Range(cd.names) \cup {ln} |->
                        IF x = ln THEN {site} ELSE cd.sites[x]],
          visible |-> [x \in Range(cd.names) \cup {ln} |->
                          IF x = ln THEN TRUE ELSE cd.visible[x]]]

\* new_name is the reply's new_site_name: a site name, or NoPlace for null
do_search_location_for_new_site(p, chunk_data, table, new_name) ==
    IF Cardinality(SitesOf(chunk_data, p.location_name)) >= SiteLimit THEN table
    ELSE IF new_name # NoPlace
         THEN update_chunk(table, <<p.q, p.r>>, WithSite(chunk_data, p.location_name, new_name))
         ELSE table

\* longer: the generated description is longer than the stored one
do_enter_site(p, chunk_data, table, site_name, longer) ==
    IF site_name \notin SitesOf(chunk_data, p.location_name)
    THEN [table |-> table, player |-> p]
    ELSE [table |-> IF longer THEN update_chunk(table, <<p.q, p.r>>, chunk_data) ELSE table,
          player |-> [p EXCEPT !.place_name = site_name]]

\* found: the reply names a new entity
do_search_site(p, chunk_data, table, found) ==
    IF p.place_name \notin SitesOf(chunk_data, p.location_name) THEN table
    ELSE IF found THEN update_chunk(table, <<p.q, p.r>>, chunk_data)
    ELSE table

----------------------------------------------------------------------------
(* apply_action and get_possible_actions: game_engine.py *)

NoCall == [c |-> <<0, 0>>, fd |-> <<>>, raised |-> FALSE, hit |-> FALSE, ret |-> EmptyChunk]

CallHere(p, o) == Call(<<p.q, p.r>>, <<>>, o)

SitesInTable(table) ==
    LET rows == UNION {Range(table[c]) : c \in DOMAIN table}
    IN  Cardinality(UNION {UNION {{<<cd, ln, s>> : s \in cd.sites[ln]} : ln \in Range(cd.names)} :
                              cd \in rows})

\* the reply of the site search may name a new site while the table holds fewer
\* than K.sites sites
SiteReplies(table, K) ==
    {NoPlace} \cup (IF SitesInTable(table) < K.sites THEN SiteNames ELSE {})

apply_action(p, chosen_action, K) ==
    IF p.place_name # NoPlace
    THEN IF chosen_action = <<"leave site">>
         THEN {Outcome(FALSE, chunks, [p EXCEPT !.place_name = NoPlace], NoCall)}
         ELSE IF chosen_action = <<"search site">>
         THEN UNION {IF o.raised THEN {Outcome(TRUE, o.table, p, CallHere(p, o))}
                     ELSE {Outcome(FALSE, do_search_site(p, o.ret, o.table, found), p,
                                   CallHere(p, o)) : found \in BOOLEAN} :
                        o \in get_or_create_chunk_data(p.q, p.r, <<>>, K)}
         ELSE \* handle_site_action: reads the chunk, changes only the player's stats
              {Outcome(o.raised, o.table, p, CallHere(p, o)) :
                  o \in get_or_create_chunk_data(p.q, p.r, <<>>, K)}
    ELSE IF chosen_action = <<"search location">>
         THEN UNION {IF o.raised THEN {Outcome(TRUE, o.table, p, CallHere(p, o))}
                     ELSE {Outcome(FALSE,
                                   do_search_location_for_new_site(p, o.ret, o.table, new_name),
                                   p, CallHere(p, o)) : new_name \in SiteReplies(o.table, K)} :
                        o \in get_or_create_chunk_data(p.q, p.r, <<>>, K)}
         ELSE IF IsExit(chosen_action)
         THEN do_exit_chunk(p, chosen_action, K)
         ELSE IF Head(chosen_action) = "enter "
         THEN UNION {IF o.raised THEN {Outcome(TRUE, o.table, p, CallHere(p, o))}
                     ELSE {LET e == do_enter_site(p, o.ret, o.table, chosen_action[2], longer)
                           IN  Outcome(FALSE, e.table, e.player, CallHere(p, o)) :
                              longer \in BOOLEAN} :
                        o \in get_or_create_chunk_data(p.q, p.r, <<>>, K)}
         ELSE do_move_to_location(p, chosen_action, K)

----------------------------------------------------------------------------
(* The state machine *)

Here == <<player.q, player.r>>
InWorld(c) == c \in DOMAIN chunks

CurrentConns == IF Exists(Here) THEN ConnsOf(FetchOne(Here), player.location_name) ELSE {}
CurrentNames == IF Exists(Here) THEN Range(FetchOne(Here).names) ELSE {}

\* the action texts a client may send
ExitActions == {ExitTok(d) : d \in DirTags} \cup {c \in CurrentConns : IsExit(c)}
MoveActions == {NameTok(n) : n \in CurrentNames} \cup {c \in CurrentConns : ~IsExit(c)}
EnterActions == {<<"enter ", s>> : s \in SiteNames}

FromDirs == {<<>>} \cup DirTags

\* last: the coordinate of the last get_or_create_chunk_data call, whether it raised,
\* whether it found a row, the chunk it returned, and, when it generated, its from_dir
Record(call) ==
    [c |-> call.c, fd |-> IF call.hit THEN <<>> ELSE call.fd,
     raised |-> call.raised, hit |-> call.hit, ret |-> call.ret]

\* the requests served at the same time
NumRequests == 2
Requests == 1..NumRequests

\* a request's call: pc is where it stands (idle, missing: its SELECT found no row,
\* built: it holds the chunk it built, done), at the step that ended it
Idle == [pc |-> "idle", c |-> <<0, 0>>, fd |-> <<>>, chunk |-> EmptyChunk,
         raised |-> FALSE, at |-> "none"]

\* no call of _roll_secret_count on its own
NoRoll == [pc |-> "none", trials |-> <<>>, count |-> 0, made |-> 0]

\* no walk
NoWalk == [pc |-> "none", c |-> <<0, 0>>, d |-> <<>>, at |-> <<0, 0>>]

\* the table made by GameEngine.setup_tables has no UNIQUE(q, r)
InitAt(cells) ==
    /\ chunks = [c \in cells |-> <<>>]
    /\ player = [q |-> 0, r |-> 0, location_name |-> "village", place_name |-> NoPlace]
    /\ last = Record(NoCall)
    /\ requests = [t \in Requests |-> Idle]
    /\ unique = FALSE
    /\ roll = NoRoll
    /\ walk = NoWalk

\* a direct call of the chunk manager's entry point
GetOrCreate(K) ==
    \E c \in DOMAIN chunks, fd \in K.fds :
        \E o \in get_or_create_chunk_data(c[1], c[2], fd, K) :
            /\ chunks' = o.table
            /\ last' = Record(Call(c, fd, o))
            /\ UNCHANGED <<player, requests, unique, roll, walk>>

get_possible_actions(K) ==
    /\ InWorld(Here)
    /\ \E o \in get_or_create_chunk_data(player.q, player.r, <<>>, K) :
           /\ chunks' = o.table
           /\ last' = Record(CallHere(player, o))
           /\ UNCHANGED <<player, requests, unique, roll, walk>>

Apply(chosen_action, K) ==
    \E o \in apply_action(player, chosen_action, K) :
        /\ chunks' = o.table
        /\ player' = o.player
        /\ last' = Record([o.call EXCEPT !.raised = o.raised])
        /\ UNCHANGED <<requests, unique, roll, walk>>

ExitChunk(K) ==
    \E a \in ExitActions :
        /\ player.place_name # NoPlace \/ InWorld(ExitTarget(player, a))
        /\ player.place_name = NoPlace \/ InWorld(Here)
        /\ Apply(a, K)

MoveToLocation(K) == InWorld(Here) /\ \E a \in MoveActions : Apply(a, K)

SearchLocation(K) == InWorld(Here) /\ Apply(<<"search location">>, K)

EnterSite(K) == InWorld(Here) /\ \E a \in EnterActions : Apply(a, K)

LeaveSite(K) == player.place_name # NoPlace /\ Apply(<<"leave site">>, K)

SearchSite(K) == InWorld(Here) /\ player.place_name # NoPlace /\ Apply(<<"search site">>, K)

NextK(K) ==
    \/ GetOrCreate(K)
    \/ get_possible_actions(K)
    \/ ExitChunk(K)
    \/ MoveToLocation(K)
    \/ SearchLocation(K)
    \/ EnterSite(K)
    \/ LeaveSite(K)
    \/ SearchSite(K)

----------------------------------------------------------------------------
(* Requests served at the same time.  The web server holds one GameEngine  *)
(* over one connection opened with check_same_thread=False and takes no    *)
(* lock, so two calls of get_or_create_chunk_data interleave at their      *)
(* reads and writes of the table: the SELECT of the coordinate, the build  *)
(* (which reads the neighbors), the INSERT.                                *)

Frame == UNCHANGED <<player, last, unique, roll, walk>>

\* row = c.execute("SELECT ...").fetchone(); if row: return json.loads(...)
Select(t, K) ==
    /\ requests[t].pc = "idle"
    /\ \E call \in K.calls :
           requests' = [requests EXCEPT ![t] =
               IF Exists(call[1])
               THEN [pc |-> "done", c |-> call[1], fd |-> call[2],
                     chunk |-> FetchOne(call[1]), raised |-> FALSE, at |-> "select"]
               ELSE [pc |-> "missing", c |-> call[1], fd |-> call[2],
                     chunk |-> EmptyChunk, raised |-> FALSE, at |-> "none"]]
    /\ UNCHANGED chunks
    /\ Frame

\* steps 1 to 7 against the table as it is now
BuildChunk(t, K) ==
    /\ requests[t].pc = "missing"
    /\ \E g \in Generate(requests[t].c[1], requests[t].c[2], requests[t].fd, K) :
           requests' = [requests EXCEPT ![t] =
               IF g.raised
               THEN [@ EXCEPT !.pc = "done", !.raised = TRUE, !.at = "build"]
               ELSE [@ EXCEPT !.pc = "built", !.chunk = g.chunk]]
    /\ UNCHANGED chunks
    /\ Frame

\* INSERT INTO chunks ...; commit; return final_chunk.  Under UNIQUE(q, r) the
\* INSERT of a coordinate that has a row raises sqlite3.IntegrityError.
Persist(t) ==
    /\ requests[t].pc = "built"
    /\ IF unique /\ Exists(requests[t].c)
       THEN /\ requests' = [requests EXCEPT ![t] =
                   [@ EXCEPT !.pc = "done", !.raised = TRUE, !.at = "persist"]]
            /\ UNCHANGED chunks
       ELSE /\ chunks' = Insert(chunks, requests[t].c, requests[t].chunk)
            /\ requests' = [requests EXCEPT ![t] = [@ EXCEPT !.pc = "done", !.at = "persist"]]
    /\ Frame

----------------------------------------------------------------------------
(* Bounds and specifications *)

\* Spec: the whole machine over one cell, the neighbor (1,0) of the player's start;
\* the content generator may fail or deviate
GenCells == {<<1, 0>>}
GenSuccess == 0
GenFrontier == 0
GenDev == 1
GenFail == 1
GenSites == 1

KGen == [secrets |-> SecretCounts(GenSuccess), budget |-> GenFrontier,
         dev |-> GenDev, fail |-> GenFail, sites |-> GenSites, fds |-> FromDirs]

Init == InitAt(GenCells)
Next == NextK(KGen)
Spec == Init /\ [][Next]_vars

\* SpecWorld: generation and movement over two adjacent cells
WorldCells == {<<0, 0>>, <<1, -1>>}
WorldSuccess == 0
WorldFrontier == 0
WorldDev == 0
WorldFail == 0

KWorld == [secrets |-> SecretCounts(WorldSuccess), budget |-> WorldFrontier,
           dev |-> WorldDev, fail |-> WorldFail, sites |-> 0, fds |-> {<<>>}]

InitWorld == InitAt(WorldCells)

NextWorld ==
    \/ GetOrCreate(KWorld)
    \/ get_possible_actions(KWorld)
    \/ ExitChunk(KWorld)
    \/ MoveToLocation(KWorld)

SpecWorld == InitWorld /\ [][NextWorld]_vars

\* SpecHome: the whole machine over the player's starting cell
HomeCells == {<<0, 0>>}
HomeSuccess == 2
HomeFrontier == 0
HomeFail == 1
HomeSites == 1

KHome == [secrets |-> SecretCounts(HomeSuccess), budget |-> HomeFrontier,
          dev |-> 0, fail |-> HomeFail, sites |-> HomeSites, fds |-> FromDirs]

InitHome == InitAt(HomeCells)
NextHome == NextK(KHome)
SpecHome == InitHome /\ [][NextHome]_vars

\* SpecConc: two requests served at the same time, each a call made by leaving
\* (0,0) for one of two cells that are neighbors of each other; the table is the
\* one of setup_tables or the one of reset_game.py (UNIQUE(q, r))
ConcCells == {<<0, 1>>, <<1, 0>>}
ConcCalls == {<< <<0, 1>>, HEX_NEIGHBORS[6][1] >>, << <<1, 0>>, HEX_NEIGHBORS[1][1] >>}
ConcSuccess == 0
ConcFrontier == 0

KConc == [secrets |-> SecretCounts(ConcSuccess), budget |-> ConcFrontier,
          dev |-> 0, fail |-> 0, sites |-> 0, fds |-> {<<>>}, calls |-> ConcCalls]

InitConc ==
    /\ chunks = [c \in ConcCells |-> <<>>]
    /\ player = [q |-> 0, r |-> 0, location_name |-> "village", place_name |-> NoPlace]
    /\ last = Record(NoCall)
    /\ requests = [t \in Requests |-> Idle]
    /\ unique \in BOOLEAN
    /\ roll = NoRoll
    /\ walk = NoWalk

NextConc ==
    \/ \E t \in Requests : Select(t, KConc)
    \/ \E t \in Requests : BuildChunk(t, KConc)
    \/ \E t \in Requests : Persist(t)

SpecConc == InitConc /\ [][NextConc]_vars

\* SpecRoll: one call of _roll_secret_count on every sequence of draws
InitRoll ==
    /\ chunks = [c \in GenCells |-> <<>>]
    /\ player = [q |-> 0, r |-> 0, location_name |-> "village", place_name |-> NoPlace]
    /\ last = Record(NoCall)
    /\ requests = [t \in Requests |-> Idle]
    /\ unique = FALSE
    /\ \E t \in [1..NumTrials -> BOOLEAN] :
           roll = [pc |-> "called", trials |-> t, count |-> 0, made |-> 0]
    /\ walk = NoWalk

RollSecretCount ==
    /\ roll.pc = "called"
    /\ roll' = [pc |-> "returned", trials |-> roll.trials,
                count |-> RollFrom(roll.trials, 1, 0).count,
                made |-> RollFrom(roll.trials, 1, 0).made]
    /\ UNCHANGED <<chunks, player, last, requests, unique, walk>>

NextRoll == RollSecretCount

SpecRoll == InitRoll /\ [][NextRoll]_vars

\* SpecWalk: the coordinate arithmetic of do_exit_chunk from every coordinate
\* within WalkRadius of the origin, along a direction and then along the text
\* that _flip_direction makes of it
WalkRadius == 2

WalkCoords == {<<q, r>> : q \in (0 - WalkRadius)..WalkRadius, r \in (0 - WalkRadius)..WalkRadius}

InitWalk ==
    /\ chunks = [c \in GenCells |-> <<>>]
    /\ player = [q |-> 0, r |-> 0, location_name |-> "village", place_name |-> NoPlace]
    /\ last = Record(NoCall)
    /\ requests = [t \in Requests |-> Idle]
    /\ unique = FALSE
    /\ roll = NoRoll
    /\ \E c \in WalkCoords : walk = [pc |-> "start", c |-> c, d |-> <<>>, at |-> c]

\* new_q = old_q + dq, new_r = old_r + dr for the action "exit:" + d
WalkOut ==
    /\ walk.pc = "start"
    /\ \E d \in DirTags :
           walk' = [pc |-> "out", c |-> walk.c, d |-> d,
                    at |-> ExitTarget([q |-> walk.at[1], r |-> walk.at[2]], ExitTok(d))]
    /\ UNCHANGED <<chunks, player, last, requests, unique, roll>>

\* the same for the action "exit:" + _flip_direction(d)
WalkBack ==
    /\ walk.pc = "out"
    /\ walk' = [walk EXCEPT !.pc = "back",
                            !.at = ExitTarget([q |-> walk.at[1], r |-> walk.at[2]],
                                              ExitTok(flip_direction(walk.d)))]
    /\ UNCHANGED <<chunks, player, last, requests, unique, roll>>

NextWalk == WalkOut \/ WalkBack

SpecWalk == InitWalk /\ [][NextWalk]_vars

----------------------------------------------------------------------------
(* Properties *)

\* the direction (dq, dr) an exit token points in, as do_exit_chunk reads it
OffsetOf(tok) == ParseOffset(StripExit(tok))

HoldsExit(cd, ln, off) == \E t \in cd.conn[ln] : IsExit(t) /\ OffsetOf(t) = off

ExitHolders(cd, off) == {ln \in Range(cd.names) : HoldsExit(cd, ln, off)}

DirOffset(i) == <<HEX_NEIGHBORS[i][2], HEX_NEIGHBORS[i][3]>>

Opposite(off) == <<0 - off[1], 0 - off[2]>>

ExitTokens(cd) ==
    UNION {{<<ln, t>> : t \in {x \in cd.conn[ln] : IsExit(x)}} : ln \in Range(cd.names)}

\* last is the record of a call that built and stored a chunk
Generated == ~last.hit /\ ~last.raised /\ last.ret # EmptyChunk

\* last is the record of a call, not the blank record
Called == last # Record(NoCall)

\* C1: for every direction d and stored chunks A at c and B at c+d, if a location
\* of A holds an exit in direction d then exactly one location of B holds an exit
\* in the opposite direction
C1_ExitBacklink ==
    \A c \in DOMAIN chunks : \A i \in 1..NumDirs :
        (/\ Exists(c)
         /\ Exists(NeighborCoord(c[1], c[2], i))
         /\ ExitHolders(FetchOne(c), DirOffset(i)) # {})
        => Cardinality(ExitHolders(FetchOne(NeighborCoord(c[1], c[2], i)),
                                   Opposite(DirOffset(i)))) = 1

\* C2: in every stored chunk, for each direction at most one location holds an
\* exit in that direction
C2_OneEdgeOneLocation ==
    \A c \in DOMAIN chunks : \A i \in 1..NumDirs :
        Exists(c) => Cardinality(ExitHolders(FetchOne(c), DirOffset(i))) <= 1

\* C3: a chunk that get_or_create_chunk_data built and stored has one connected
\* component over its local edges
C3_LocalConnected == Generated => Len(components(last.ret)) = 1

\* C4: a call for a stored coordinate has one outcome, whatever from_dir is: it
\* returns the stored chunk and leaves the table as it was; and the chunk a call
\* has just built is the one stored, so the next call returns the same chunk
C4_Idempotent ==
    /\ \A c \in DOMAIN chunks : \A fd \in FromDirs :
           Exists(c) =>
               get_or_create_chunk_data(c[1], c[2], fd, KGen)
                   = {[raised |-> FALSE, hit |-> TRUE, ret |-> FetchOne(c), table |-> chunks]}
    /\ Generated => Exists(last.c) /\ FetchOne(last.c) = last.ret

\* a direct call found the stored chunk: the player has not left the start
C4_Witness ==
    /\ last.hit /\ ~last.raised
    /\ player.q = 0 /\ last.c = <<1, 0>>
    /\ last.ret = FetchOne(last.c)
    /\ Len(last.ret.names) >= NormalCount

\* C5: no step changes the location names or the connections of a stored chunk
C5_StructureImmutable ==
    [][\A c \in DOMAIN chunks :
          Exists(c) =>
              /\ chunks'[c] # <<>>
              /\ Range(chunks'[c][1].names) = Range(chunks[c][1].names)
              /\ chunks'[c][1].conn = chunks[c][1].conn]_vars

\* C6: a call without from_dir for a coordinate that is not stored and has no
\* stored neighbor does not raise, and stores a chunk of 3 to 5 locations, one
\* component and at most 6 exits
C6_NoArrivalCompletes ==
    (/\ Called /\ ~last.hit /\ last.fd = <<>>
     /\ \A i \in 1..NumDirs : ~Exists(NeighborCoord(last.c[1], last.c[2], i)))
    => /\ ~last.raised
       /\ Len(last.ret.names) \in NormalCount..(NormalCount + SecretCap)
       /\ Len(components(last.ret)) = 1
       /\ Cardinality(ExitTokens(last.ret)) <= NumDirs

\* C7: on a direction tag given as from_dir, flip_direction returns one of the
\* six tags, is its own inverse, has no fixed point and is injective
C7_FlipOnTags ==
    last.fd \in DirTags =>
        /\ flip_direction(last.fd) \in DirTags
        /\ flip_direction(flip_direction(last.fd)) = last.fd
        /\ flip_direction(last.fd) # last.fd
        /\ \A e \in DirTags : flip_direction(e) = flip_direction(last.fd) => e = last.fd

\* C8: a chunk built with from_dir given holds, at its first location, an exit
\* pointing opposite to from_dir
C8_ArrivalExit ==
    (Generated /\ last.fd # <<>>)
    => HoldsExit(last.ret, last.ret.names[1], Opposite(ParseOffset(last.fd)))

\* C9: a chunk that get_or_create_chunk_data built and stored has 3 normal
\* locations and at most 2 secret ones: between 3 and 5 locations
C9_LocationCount ==
    Generated => Len(last.ret.names) \in NormalCount..(NormalCount + SecretCap)

\* a renaming of a onto b that carries every connection of a to one of b
SameShape(a, b) ==
    /\ Len(a.names) = Len(b.names)
    /\ \E f \in [Range(a.names) -> Range(b.names)] :
          /\ \A x, y \in Range(a.names) : f[x] = f[y] => x = y
          /\ \A x \in Range(a.names) :
                b.conn[f[x]] = {IF IsExit(t) THEN t
                                ELSE IF t[1] \in Range(a.names) THEN NameTok(f[t[1]])
                                ELSE t : t \in a.conn[x]}

\* C10: whatever the content generator replies, the chunk to be stored has the
\* builder's locations, local edges and exits, up to the names of the locations
C10_EnrichmentKeepsTopology ==
    \A c \in DOMAIN chunks : \A fd \in FromDirs :
        ~Exists(c) =>
            \A b \in build_topology(c[1], c[2], fd, KGen) :
                \A e \in enrich(b, KGen) : SameShape(b, e)

\* C11: a failure of the content generator never makes a generation raise (a
\* generation raises only where the builder does), and a failed naming or
\* description reply leaves the names and connections as they were built
C11_ContentFailureTolerated ==
    /\ (Called /\ ~last.hit /\ last.raised /\ ~Exists(last.c))
           => BuildRaises(last.c[1], last.c[2], last.fd, KGen)
    /\ \A c \in DOMAIN chunks : \A fd \in FromDirs :
           ~Exists(c) =>
               \A b \in build_topology(c[1], c[2], fd, KGen) :
                   /\ \A reply \in NamingReplies(b, KGen) :
                          (~reply.ok /\ ~NamingRaises(reply))
                              => generate_location_names_and_stories(b, reply) = b
                   /\ \A reply \in DescriptionReplies(b, KGen) :
                          ~reply.ok =>
                              /\ generate_ai_descriptions(b, reply).names = b.names
                              /\ generate_ai_descriptions(b, reply).conn = b.conn

\* C12: a call that builds a chunk writes one row for its coordinate and nothing
\* else, a call that finds a row or raises writes nothing, and the table never
\* holds two rows for one coordinate
C12_OneWritePerCoordinate ==
    /\ \A c \in DOMAIN chunks : Len(chunks[c]) <= 1
    /\ Generated => chunks[last.c] = <<last.ret>>
    /\ \A c \in DOMAIN chunks : \A fd \in FromDirs :
           \A o \in get_or_create_chunk_data(c[1], c[2], fd, KGen) :
               IF o.raised \/ o.hit THEN o.table = chunks
               ELSE o.table = [chunks EXCEPT ![c] = Append(@, o.ret)]

\* a call with from_dir has just built a chunk and its row is the only one
C12_Witness ==
    /\ Generated /\ last.fd # <<>>
    /\ Len(chunks[last.c]) = 1
    /\ Len(last.ret.names) >= NormalCount

\* request t has returned or raised
Done(t) == requests[t].pc = "done"

\* request t found no row for its coordinate when it looked
FoundMissing(t) == Done(t) /\ requests[t].at # "select"

\* C13: when two calls served at the same time both found no row for the same
\* coordinate, one chunk is stored for it and both return that same chunk
C13_ExclusivePerCoordinate ==
    \A t1, t2 \in Requests :
        (t1 # t2 /\ FoundMissing(t1) /\ FoundMissing(t2) /\ requests[t1].c = requests[t2].c)
        => /\ Len(chunks[requests[t1].c]) = 1
           /\ ~requests[t1].raised /\ ~requests[t2].raised
           /\ requests[t1].chunk = requests[t2].chunk

\* C14: when two neighboring chunks were built by calls served at the same time
\* and both are stored, A holds an exit towards B exactly when B holds an exit
\* towards A
C14_ConcurrentNeighborsAgree ==
    \A t1, t2 \in Requests : \A i \in 1..NumDirs :
        (/\ FoundMissing(t1) /\ FoundMissing(t2)
         /\ requests[t2].c = NeighborCoord(requests[t1].c[1], requests[t1].c[2], i)
         /\ Exists(requests[t1].c) /\ Exists(requests[t2].c))
        => (ExitHolders(FetchOne(requests[t1].c), DirOffset(i)) # {}
               <=> ExitHolders(FetchOne(requests[t2].c), Opposite(DirOffset(i))) # {})

\* C15: under UNIQUE(q, r), a call that reached its INSERT ends without an error
\* and returns the chunk stored for the coordinate, also when another writer had
\* inserted it first
C15_ConflictReturnsWinner ==
    \A t \in Requests :
        (unique /\ Done(t) /\ requests[t].at = "persist")
        => /\ ~requests[t].raised
           /\ requests[t].chunk = FetchOne(requests[t].c)

\* C16: every connection token of a location of a stored chunk is the name of
\* another location of that chunk or "exit:" followed by one of the six tags
C16_TokenFormat ==
    \A c \in DOMAIN chunks : \A k \in 1..Len(chunks[c]) :
        LET cd == chunks[c][k]
        IN  \A ln \in Range(cd.names) : \A t \in cd.conn[ln] :
                \/ \E x \in Range(cd.names) \ {ln} : t = NameTok(x)
                \/ \E d \in DirTags : t = ExitTok(d)

\* C17: a call of get_or_create_chunk_data that raises leaves the chunks table
\* as it was, with no row for its coordinate, so that the same call made again
\* builds the chunk anew
C17_RaiseWritesNothing ==
    /\ (Called /\ last.raised) => (~last.hit /\ ~Exists(last.c))
    /\ \A c \in DOMAIN chunks : \A fd \in FromDirs :
           \A o \in get_or_create_chunk_data(c[1], c[2], fd, KGen) :
               o.raised => (o.table = chunks /\ ~Exists(c))

C17_Witness == Called /\ last.raised /\ last.fd # <<>> /\ RowsAt(last.c) = <<>>

\* the draws d with every draw after the first failed one turned into a failure
StopAtFirstFailure(d) == [i \in 1..Len(d) |-> \A j \in 1..i : d[j]]

\* C19: in the frontier step the first failed draw ends the step: whatever the
\* later draws are, the chunk is the one obtained when every later draw fails too
C19_FirstFailureEnds ==
    \A c \in DOMAIN chunks : \A fd \in FromDirs : \A sc \in KGen.secrets :
        ~Exists(c) =>
            \A cd \in apply_neighbor_backlinks(Placeholders(sc, fd),
                                               get_neighbor_data(c[1], c[2])) :
                ~AddExitsRaises(cd) /\ Cardinality(used_edges(cd)) < NumDirs =>
                    LET probs == prob_map[Cardinality(used_edges(cd))]
                        unexplored == unexplored_dirs(c[1], c[2], cd)
                    IN  \A d \in DrawSeqs(probs, Len(probs)) :
                            TryDraws(cd, unexplored, probs, 1, d)
                                = TryDraws(cd, unexplored, probs, 1, StopAtFirstFailure(d))

\* the exit tokens that the frontier step added to cd to obtain out
AddedByFrontier(cd, out) ==
    UNION {out.conn[ln] \ cd.conn[ln] : ln \in Range(cd.names)}

\* C20: every exit the frontier step adds points in one of the six directions,
\* to a coordinate with no stored chunk, and in a direction in which no location
\* of the chunk held an exit before the step
C20_FrontierOnlyUnexplored ==
    \A c \in DOMAIN chunks : \A fd \in FromDirs : \A sc \in KGen.secrets :
        ~Exists(c) =>
            \A cd \in apply_neighbor_backlinks(Placeholders(sc, fd),
                                               get_neighbor_data(c[1], c[2])) :
                ~AddExitsRaises(cd) =>
                    \A out \in add_additional_exits(c[1], c[2], cd, KGen.budget) :
                        \A t \in AddedByFrontier(cd, out) :
                            /\ IsExit(t) /\ StripExit(t) \in DirTags
                            /\ ~Exists(<<c[1] + OffsetOf(t)[1], c[2] + OffsetOf(t)[2]>>)
                            /\ ExitHolders(cd, OffsetOf(t)) = {}

\* the from_dir of an arrival at c from a stored chunk
Arrivals(c) ==
    {HEX_NEIGHBORS[i][1] : i \in {k \in 1..NumDirs :
        Exists(<<c[1] - HEX_NEIGHBORS[k][2], c[2] - HEX_NEIGHBORS[k][3]>>)}}

\* C21: the frontier step adds nothing to a chunk with six used directions, adds
\* at most one exit per direction, and leaves a chunk with at most six exit edges
C21_AtMostSixExits ==
    \A c \in DOMAIN chunks : \A fd \in Arrivals(c) : \A sc \in KWorld.secrets :
        ~Exists(c) =>
            \A cd \in apply_neighbor_backlinks(Placeholders(sc, fd),
                                               get_neighbor_data(c[1], c[2])) :
                ~AddExitsRaises(cd) =>
                    \A out \in add_additional_exits(c[1], c[2], cd, NumDirs) :
                        /\ Cardinality(used_edges(cd)) >= NumDirs => out = cd
                        /\ \A d \in DirTags :
                               Cardinality({x \in ExitTokens(out) \ ExitTokens(cd) :
                                               x[2] = ExitTok(d)}) <= 1
                        /\ Cardinality(ExitTokens(out)) <= NumDirs

\* C22: a step that moves the player to another coordinate leaves the player at
\* a location of the chunk stored there that holds an exit pointing back to the
\* coordinate the player left
C22_ArrivesAtBackExit ==
    [][Here' # Here =>
          LET cd == chunks'[Here'][1]
              back == <<player.q - player'.q, player.r - player'.r>>
          IN  /\ HasLoc(cd, player'.location_name)
              /\ HoldsExit(cd, player'.location_name, back)]_vars

\* the names a location made as the i-th secret placeholder can have when stored
\* by a content generator that does not deviate
SecretOrigin == Range(SecretNames) \cup {NewNames[NormalCount + i] : i \in 1..SecretCap}

\* the same for the normal placeholders
NormalOrigin == Range(NormalNames) \cup {NewNames[i] : i \in 1..NormalCount}

\* C23: in every stored chunk a location made as a secret placeholder is not
\* visible and a location made as a normal placeholder is visible, renamed or not
C23_SecretsInvisible ==
    \A c \in DOMAIN chunks : \A k \in 1..Len(chunks[c]) :
        \A ln \in Range(chunks[c][k].names) :
            /\ ln \in SecretOrigin => ~chunks[c][k].visible[ln]
            /\ ln \in NormalOrigin => chunks[c][k].visible[ln]

\* the chunks that step 5 can receive for a call on a missing coordinate
BeforeRepair(c, fd, K) ==
    UNION {add_additional_exits(c[1], c[2], cd, K.budget) :
              cd \in {x \in UNION {apply_neighbor_backlinks(Placeholders(sc, fd),
                                                            get_neighbor_data(c[1], c[2])) :
                                      sc \in K.secrets} : ~AddExitsRaises(x)}}

\* the local edges of a chunk, each as the set of its two ends
LocalEdges(cd) ==
    UNION {{{x, y} : y \in {z \in Range(cd.names) : NameTok(z) \in cd.conn[x]}} :
              x \in Range(cd.names)}

\* C24: the repair of a chunk of m components adds m - 1 local edges, each
\* between two locations of distinct components, and leaves one component
C24_RepairAddsSpanningEdges ==
    \A c \in DOMAIN chunks : \A fd \in FromDirs :
        ~Exists(c) =>
            \A pre \in BeforeRepair(c, fd, KHome) :
                \A out \in connect_local_locations(pre) :
                    LET comps == components(pre)
                        added == LocalEdges(out) \ LocalEdges(pre)
                    IN  /\ out.names = pre.names
                        /\ LocalEdges(pre) \subseteq LocalEdges(out)
                        /\ Cardinality(added) = Len(comps) - 1
                        /\ \A e \in added :
                               /\ Cardinality(e) = 2
                               /\ \A k \in 1..Len(comps) : ~(e \subseteq comps[k])
                        /\ Len(components(out)) = 1

C24_Witness ==
    /\ Generated
    /\ Len(last.ret.names) = NormalCount + SecretCap
    /\ Len(components(last.ret)) = 1
    /\ Cardinality(LocalEdges(last.ret)) = Len(last.ret.names) - 1

\* C25: in every stored chunk a location lists another location exactly when
\* that one lists it, and no location lists itself
C25_LocalEdgesSymmetric ==
    \A c \in DOMAIN chunks : \A k \in 1..Len(chunks[c]) :
        LET cd == chunks[c][k]
        IN  \A x, y \in Range(cd.names) :
                /\ NameTok(y) \in cd.conn[x] <=> NameTok(x) \in cd.conn[y]
                /\ NameTok(x) \notin cd.conn[x]

\* the exit tokens of location ln
ExitsOf(cd, ln) == {t \in cd.conn[ln] : IsExit(t)}

\* C26: the repair leaves every location with exactly the exit tokens it had
C26_RepairKeepsExits ==
    \A c \in DOMAIN chunks : \A fd \in FromDirs :
        ~Exists(c) =>
            \A pre \in BeforeRepair(c, fd, KHome) :
                \A out \in connect_local_locations(pre) :
                    \A ln \in Range(pre.names) : ExitsOf(out, ln) = ExitsOf(pre, ln)

C26_Witness ==
    /\ Generated
    /\ LocalEdges(last.ret) # {}
    /\ \E x, y \in Range(last.ret.names) :
           x # y /\ ExitsOf(last.ret, x) # {} /\ ExitsOf(last.ret, y) # {}

\* the number of successes among the first n trials of the roll
Successes(n) == Cardinality({i \in 1..n : roll.trials[i]})

\* C27: a roll makes at most 10 trials, none after the second success, and
\* returns the number of successes among the trials made, which is 0, 1 or 2 and
\* the lesser of 2 and the successes of the whole sequence
C27_RollCountsToTwo ==
    roll.pc = "returned" =>
        /\ roll.made <= NumTrials
        /\ \A i \in 1..(roll.made - 1) : Successes(i) < SecretCap
        /\ roll.count = Successes(roll.made)
        /\ roll.count \in 0..SecretCap
        /\ roll.count = IF Successes(NumTrials) < SecretCap
                        THEN Successes(NumTrials) ELSE SecretCap
        /\ roll.count = roll_secret_count(roll.trials)

C27_Witness ==
    /\ roll.pc = "returned"
    /\ roll.made < NumTrials
    /\ roll.count = SecretCap
    /\ Successes(NumTrials) > SecretCap

\* C28: a step changes the player's coordinate only along an exit token that the
\* player's location lists in the stored chunk; any other step leaves the
\* player's coordinate as it was
C28_ExitOnlyIfListed ==
    [][Here' # Here =>
          \E t \in CurrentConns : IsExit(t) /\ ExitTarget(player, t) = Here']_vars

\* the player's location_name names a location of the chunk stored at the
\* player's coordinate
AtStoredLocation == Exists(Here) /\ HasLoc(FetchOne(Here), player.location_name)

\* C29: a move or an exit made from a location of the stored chunk leaves the
\* player at a location of the chunk stored at the player's coordinate
C29_PlayerStaysOnLocation ==
    [][(/\ AtStoredLocation
        /\ <<player'.q, player'.r, player'.location_name>>
               # <<player.q, player.r, player.location_name>>)
       => AtStoredLocation']_vars

\* C30: from every coordinate, the offset parsed from a direction followed by
\* the offset parsed from its inverse leads back to the coordinate
C30_OutAndBack ==
    /\ walk.pc = "out" => walk.at # walk.c
    /\ walk.pc = "back" => walk.at = walk.c

C30_Witness ==
    /\ walk.pc = "back"
    /\ walk.d = HEX_NEIGHBORS[1][1]
    /\ flip_direction(walk.d) \notin DirTags
    /\ walk.c = <<WalkRadius, 0 - WalkRadius>>
    /\ walk.at = walk.c

====
